---- MODULE Spec2Model ----
(***************************************************************************)
(* A model of sudoku.rs: read_grid, solve_grid (next_color, drop_colors    *)
(* and the backtracking driver), write_grid and main.                      *)
(*                                                                         *)
(* Three specifications share the variables:                               *)
(*   Spec      main after read_grid returned: solve_grid, then write_grid  *)
(*   SpecColor one call of next_color on a grid, a cell and a start colour *)
(*   SpecRead  read_grid on a sequence of input lines                      *)
(***************************************************************************)
EXTENDS Integers, Sequences, FiniteSets

VARIABLES
    g,      \* the grid (sudoku.rs:53), rows and columns 0..9 as allocated
    input,  \* the grid as it was when solve_grid / next_color was entered
    work,   \* solve_grid's queue of uncoloured fields (sudoku.rs:126)
    ptr,    \* solve_grid's cursor into work (sudoku.rs:136)
    end,    \* vec::len(work) (sudoku.rs:137)
    pc,     \* where the program is
    nc,     \* the last call of next_color: its arguments and its result
    out,    \* the lines written to stdout by write_grid
    header, \* the first line of stdin
    lines   \* the lines of stdin not yet read by read_grid

vars == <<g, input, work, ptr, end, pc, nc, out, header, lines>>

-----------------------------------------------------------------------------
(* Bounds of the model and constants of the program *)

\* the inputs of Spec blank the first 0..MaxBlank cells of a solved grid
MaxBlank == 22
\* ... and overwrite one of MaxOver cells with any colour
MaxOver == 3
\* SpecRead reads at most MaxLines data lines
MaxLines == 2
\* the inputs of SpecFair blank the first 0..MaxLive cells
MaxLive == 12

\* rows and columns allocated by read_grid
Alloc == 10
\* rows and columns of the sudoku
Size == 9
\* side of a block
Block == 3
\* width of u8
U8Mod == 256

Idx == 0 .. (Size - 1)
Colors == 1 .. 9
Cells == Idx \X Idx

U8(n) == n % U8Mod

-----------------------------------------------------------------------------
(* Grids *)

\* vec::init_fn({|row_index| ret vec::init_elt_mut(0 as u8, 10 as uint);}, 10)
EmptyGrid == [row \in 0 .. (Alloc - 1) |-> [col \in 0 .. (Alloc - 1) |-> 0]]

\* g[row][col] = color
SetCell(grid, row, col, color) == [grid EXCEPT ![row][col] = color]

\* the example sudoku of the source, as its <row>,<column>,<color> lines
ExampleLines ==
    << <<0,1,4>>, <<0,3,6>>, <<0,7,3>>, <<0,8,2>>, <<1,2,8>>, <<1,4,2>>,
       <<2,0,7>>, <<2,3,8>>, <<3,3,5>>, <<4,1,5>>, <<4,5,3>>, <<4,6,6>>,
       <<5,0,6>>, <<5,1,8>>, <<5,7,9>>, <<6,1,9>>, <<6,2,5>>, <<6,5,6>>,
       <<6,7,7>>, <<7,4,4>>, <<7,7,6>>, <<8,0,4>>, <<8,5,7>>, <<8,6,2>>,
       <<8,8,3>> >>

RECURSIVE ApplyLines(_, _)
ApplyLines(grid, ls) ==
    IF ls = <<>> THEN grid
    ELSE ApplyLines(SetCell(grid, ls[1][1], ls[1][2], ls[1][3]), Tail(ls))

ExampleGrid == ApplyLines(EmptyGrid, ExampleLines)

\* the grid solve_grid computes for the example sudoku
SolvedRows ==
    << <<1,4,9,6,7,5,8,3,2>>,
       <<5,3,8,1,2,9,7,4,6>>,
       <<7,2,6,8,3,4,1,5,9>>,
       <<9,1,4,5,6,8,3,2,7>>,
       <<2,5,7,4,9,3,6,1,8>>,
       <<6,8,3,7,1,2,5,9,4>>,
       <<3,9,5,2,8,6,4,7,1>>,
       <<8,7,2,3,4,1,9,6,5>>,
       <<4,6,1,9,5,7,2,8,3>> >>

SolvedGrid ==
    [row \in 0 .. (Alloc - 1) |-> [col \in 0 .. (Alloc - 1) |->
        IF row < Size /\ col < Size THEN SolvedRows[row + 1][col + 1] ELSE 0]]

\* SolvedGrid with its first t cells (row-major) empty
Blanked(t) ==
    [row \in 0 .. (Alloc - 1) |-> [col \in 0 .. (Alloc - 1) |->
        IF row < Size /\ col < Size /\ row * Size + col < t
        THEN 0 ELSE SolvedGrid[row][col]]]

\* the o-th cell that an input may overwrite
OverCell(o) == <<(o + 2) % 3, (4 * o) % 9>>

\* the solved grid with fields blanked and one field overwritten
BlankedGrids ==
    { SetCell(Blanked(t), OverCell(o)[1], OverCell(o)[2], v) :
        t \in 0 .. MaxBlank, o \in 0 .. (MaxOver - 1), v \in 0 .. 9 }

\* the grids solve_grid is run on
InputGrids == {ExampleGrid} \cup BlankedGrids

\* the grids next_color is called on
ColorGrids == { Blanked(t) : t \in 0 .. MaxBlank } \cup {ExampleGrid}

-----------------------------------------------------------------------------
(* next_color and drop_colors (sudoku.rs:77-124) *)

\* Avail with the range one short: colour 9 is never available
AvailShort(start_color) ==
    [color \in 0 .. 9 |-> start_color <= color /\ color < 9]

\* Avail with the range starting one late: start_color itself is not set
AvailAfterStart(start_color) ==
    [color \in 0 .. 9 |-> start_color < color /\ color < 10]

\* bitv::create(10, false), then bits start_color .. 9 set
Avail(start_color) ==
    [color \in 0 .. 9 |-> start_color <= color /\ color < 10]

\* fn drop_color
drop_color(grid, colors, row, col) ==
    LET color == grid[row][col]
    IN  IF color # 0 THEN [colors EXCEPT ![color] = FALSE] ELSE colors

\* DropLines without it(row, idx): the row is not scanned
RECURSIVE DropLinesColumnOnly(_, _, _, _, _)
DropLinesColumnOnly(grid, avail, row, col, idx) ==
    IF idx < Size
    THEN DropLinesColumnOnly(grid, drop_color(grid, avail, idx, col),
                             row, col, idx + 1)
    ELSE avail

\* u8::range(0, 9) { |idx| it(idx, col); it(row, idx); }
RECURSIVE DropLines(_, _, _, _, _)
DropLines(grid, avail, row, col, idx) ==
    IF idx < Size
    THEN DropLines(grid,
                   drop_color(grid, drop_color(grid, avail, idx, col), row, idx),
                   row, col, idx + 1)
    ELSE avail

\* u8::range(row0, row0+3) { |alt_row| u8::range(col0, col0+3) { ... } },
\* k counting the block's fields row by row
RECURSIVE DropBlock(_, _, _, _, _)
DropBlock(grid, avail, row0, col0, k) ==
    IF k < Block * Block
    THEN DropBlock(grid,
                   drop_color(grid, avail, row0 + (k \div Block), col0 + (k % Block)),
                   row0, col0, k + 1)
    ELSE avail

\* drop_colors without the scan of the block
drop_colors_NoBlock(grid, avail, row, col) ==
    DropLines(grid, avail, row, col, 0)

\* fn drop_colors
drop_colors(grid, avail, row, col) ==
    LET row0 == (row \div Block) * Block
        col0 == (col \div Block) * Block
    IN  DropBlock(grid, DropLines(grid, avail, row, col, 0), row0, col0, 0)

\* while i < 10 { if bitv::get(avail, i) { ... ret true; } i += 1; }
\* the first available colour from i on, 0 when there is none
RECURSIVE FirstAvail(_, _)
FirstAvail(avail, i) ==
    IF i < 10
    THEN IF avail[i] THEN i ELSE FirstAvail(avail, i + 1)
    ELSE 0

\* next_color without its g[row][col] = 0 before ret false
next_color_NoReset(grid, row, col, start_color) ==
    LET found == IF start_color < 10
                 THEN FirstAvail(drop_colors(grid, Avail(start_color), row, col), 1)
                 ELSE 0
    IN  IF found # 0
        THEN [ret |-> TRUE,  g |-> SetCell(grid, row, col, found)]
        ELSE [ret |-> FALSE, g |-> grid]

\* fn next_color: the returned bool and the grid as it leaves it
next_color(grid, row, col, start_color) ==
    LET found == IF start_color < 10
                 THEN FirstAvail(drop_colors(grid, Avail(start_color), row, col), 1)
                 ELSE 0
    IN  IF found # 0
        THEN [ret |-> TRUE,  g |-> SetCell(grid, row, col, found)]
        ELSE [ret |-> FALSE, g |-> SetCell(grid, row, col, 0)]

-----------------------------------------------------------------------------
(* solve_grid (sudoku.rs:126-149) *)

\* BuildWork without its test color == 0: every field is queued
RECURSIVE BuildWorkAll(_, _)
BuildWorkAll(grid, k) ==
    IF k < Size * Size
    THEN << <<k \div Size, k % Size>> >> \o BuildWorkAll(grid, k + 1)
    ELSE <<>>

\* BuildWork with its test inverted: the coloured fields are queued
RECURSIVE BuildWorkColored(_, _)
BuildWorkColored(grid, k) ==
    IF k < Size * Size
    THEN LET row == k \div Size
             col == k % Size
         IN  (IF grid[row][col] # 0 THEN << <<row, col>> >> ELSE <<>>)
             \o BuildWorkColored(grid, k + 1)
    ELSE <<>>

\* BuildWork with the two loops exchanged: the fields column by column
RECURSIVE BuildWorkColumnMajor(_, _)
BuildWorkColumnMajor(grid, k) ==
    IF k < Size * Size
    THEN LET col == k \div Size
             row == k % Size
         IN  (IF grid[row][col] = 0 THEN << <<row, col>> >> ELSE <<>>)
             \o BuildWorkColumnMajor(grid, k + 1)
    ELSE <<>>

\* the fields appended to work by the two nested u8::range loops, from the
\* k-th field (row-major) on
BuildWork(grid, k) ==
    LET IsEmpty(p) == grid[p[1]][p[2]] = 0
        fields == [i \in 1 .. (Size * Size - k) |->
                     <<(k + i - 1) \div Size, (k + i - 1) % Size>>]
    IN  SelectSeq(fields, IsEmpty)

\* let work = ...; let ptr = 0; let end = vec::len(work);
SolveStart ==
    /\ pc = "solve"
    /\ work' = BuildWork(g, 0)
    /\ ptr' = 0
    /\ end' = Len(BuildWork(g, 0))
    /\ pc' = "loop"
    /\ UNCHANGED <<g, input, nc, out, header, lines>>

\* the call next_color(g, row, col, g[row][col] + 1) of one loop iteration
CurRow == work[ptr + 1][1]
CurCol == work[ptr + 1][2]
\* CurStart as if the field held 0: the colours already tried are tried again
CurStartOne == U8(0 + 1)

\* CurStart without the + 1: the scan starts at the colour the field holds
CurStartSame == g[CurRow][CurCol]

CurStart == U8(g[CurRow][CurCol] + 1)
CurCall == next_color(g, CurRow, CurCol, CurStart)
CallRecord == [row |-> CurRow, col |-> CurCol, start |-> CurStart, ret |-> CurCall.ret]

\* next_color returned true: ptr = ptr + 1
Forward ==
    /\ pc = "loop"
    /\ ptr < end
    /\ CurCall.ret
    /\ g' = CurCall.g
    /\ nc' = CallRecord
    /\ ptr' = ptr + 1
    /\ UNCHANGED <<input, work, end, pc, out, header, lines>>

\* Backward without the test ptr == 0 before it: ptr - 1 also at ptr == 0
BackwardUnguarded ==
    /\ pc = "loop"
    /\ ptr < end
    /\ ~CurCall.ret
    /\ g' = CurCall.g
    /\ nc' = CallRecord
    /\ ptr' = ptr - 1
    /\ UNCHANGED <<input, work, end, pc, out, header, lines>>

\* next_color returned false and ptr # 0: ptr = ptr - 1
Backward ==
    /\ pc = "loop"
    /\ ptr < end
    /\ ~CurCall.ret
    /\ ptr # 0
    /\ g' = CurCall.g
    /\ nc' = CallRecord
    /\ ptr' = ptr - 1
    /\ UNCHANGED <<input, work, end, pc, out, header, lines>>

\* Fail without the abort: main goes on to write_grid
FailContinues ==
    /\ pc = "loop"
    /\ ptr < end
    /\ ~CurCall.ret
    /\ ptr = 0
    /\ g' = CurCall.g
    /\ nc' = CallRecord
    /\ pc' = "write"
    /\ UNCHANGED <<input, work, ptr, end, out, header, lines>>

\* next_color returned false and ptr == 0: fail "No solution found ..."
Fail ==
    /\ pc = "loop"
    /\ ptr < end
    /\ ~CurCall.ret
    /\ ptr = 0
    /\ g' = CurCall.g
    /\ nc' = CallRecord
    /\ pc' = "failed"
    /\ UNCHANGED <<input, work, ptr, end, out, header, lines>>

\* the loop condition ptr < end is false: solve_grid returns to main
SolveReturn ==
    /\ pc = "loop"
    /\ ~(ptr < end)
    /\ pc' = "write"
    /\ UNCHANGED <<g, input, work, ptr, end, nc, out, header, lines>>

-----------------------------------------------------------------------------
(* write_grid (sudoku.rs:152-161) *)

DigitChar == <<"0", "1", "2", "3", "4", "5", "6", "7", "8", "9">>

\* uint::str
RECURSIVE UintStr(_)
UintStr(n) ==
    IF n < 10 THEN <<DigitChar[n + 1]>>
    ELSE UintStr(n \div 10) \o <<DigitChar[(n % 10) + 1]>>

\* f.write_char(' '); f.write_str(uint::str(g[row][col])) for col .. 8
RECURSIVE RowTail(_, _, _)
RowTail(grid, row, col) ==
    IF col < Size
    THEN <<" ">> \o UintStr(grid[row][col]) \o RowTail(grid, row, col + 1)
    ELSE <<>>

\* one line of output, without its '\n'
RowText(grid, row) == UintStr(grid[row][0]) \o RowTail(grid, row, 1)

\* fn write_grid, called by main after solve_grid returned
WriteGrid ==
    /\ pc = "write"
    /\ out' = [row \in 1 .. Size |-> RowText(g, row - 1)]
    /\ pc' = "done"
    /\ UNCHANGED <<g, input, work, ptr, end, nc, header, lines>>

-----------------------------------------------------------------------------
(* main after read_grid: solve_grid(grid); write_grid(io::stdout(), grid) *)

NoCall == [row |-> 0, col |-> 0, start |-> 0, ret |-> FALSE]

Init ==
    /\ g \in InputGrids
    /\ input = g
    /\ work = <<>>
    /\ ptr = 0
    /\ end = 0
    /\ pc = "solve"
    /\ nc = NoCall
    /\ out = <<>>
    /\ header = "9,9"
    /\ lines = <<>>

Next == SolveStart \/ Forward \/ Backward \/ Fail \/ SolveReturn \/ WriteGrid

Spec == Init /\ [][Next]_vars

\* the same program on the blanked grids alone, whose sets of completions
\* are small
InitBlanked ==
    /\ g \in BlankedGrids
    /\ input = g
    /\ work = <<>>
    /\ ptr = 0
    /\ end = 0
    /\ pc = "solve"
    /\ nc = NoCall
    /\ out = <<>>
    /\ header = "9,9"
    /\ lines = <<>>

SpecBlanked == InitBlanked /\ [][Next]_vars

\* the program does not stop while a step is possible; the runs are those
\* on the example sudoku and on the grids with at most MaxLive fields blanked
InitLive ==
    /\ g \in {ExampleGrid} \cup
              { SetCell(Blanked(t), OverCell(o)[1], OverCell(o)[2], v) :
                  t \in 0 .. MaxLive, o \in 0 .. (MaxOver - 1), v \in 0 .. 9 }
    /\ input = g
    /\ work = <<>>
    /\ ptr = 0
    /\ end = 0
    /\ pc = "solve"
    /\ nc = NoCall
    /\ out = <<>>
    /\ header = "9,9"
    /\ lines = <<>>

SpecFair == InitLive /\ [][Next]_vars /\ WF_vars(Next)

-----------------------------------------------------------------------------
(* One call next_color(g, row, col, start_color) *)

InitColor ==
    /\ g \in ColorGrids
    /\ input = g
    /\ work = <<>>
    /\ ptr = 0
    /\ end = 0
    /\ pc = "color_call"
    /\ nc \in [row : Idx, col : Idx, start : 1 .. 10, ret : {FALSE}]
    /\ out = <<>>
    /\ header = "9,9"
    /\ lines = <<>>

ColorCall ==
    /\ pc = "color_call"
    /\ g' = next_color(g, nc.row, nc.col, nc.start).g
    /\ nc' = [nc EXCEPT !.ret = next_color(g, nc.row, nc.col, nc.start).ret]
    /\ pc' = "color_done"
    /\ UNCHANGED <<input, work, ptr, end, out, header, lines>>

NextColor == ColorCall

SpecColor == InitColor /\ [][NextColor]_vars

-----------------------------------------------------------------------------
(* read_grid (sudoku.rs:56-73) *)

\* the value of a digit character
DigitOf(ch) == CHOOSE d \in 0 .. 9 : DigitChar[d + 1] = ch

\* uint::from_str on a non-empty string of digits: the digits weighted by
\* the powers of 10, the last digit first
RECURSIVE ParseBuf(_, _, _)
ParseBuf(buf, i, power) ==
    IF i = 0 THEN 0
    ELSE DigitOf(buf[i]) * power + ParseBuf(buf, i - 1, power * 10)

from_str(s) == ParseBuf(s, Len(s), 1)

\* the fields a data line is made of
FieldSet == { <<"0">>, <<"4">>, <<"1", "0">> }

\* the trimmed lines of the input, each already split at its commas; <<>> is
\* a line that is empty after the trim
LineSet == {<<>>} \cup UNION { [1 .. n -> FieldSet] : n \in 1 .. 3 }

HeaderSet == {"9,9", "9,8"}

InitRead ==
    /\ g = EmptyGrid
    /\ input = EmptyGrid
    /\ work = <<>>
    /\ ptr = 0
    /\ end = 0
    /\ pc = "read_header"
    /\ nc = NoCall
    /\ out = <<>>
    /\ header \in HeaderSet
    /\ lines \in UNION { [1 .. n -> LineSet] : n \in 0 .. MaxLines }

\* assert f.read_line() == "9,9"; let g: grid = ...
ReadHeader ==
    /\ pc = "read_header"
    /\ IF header = "9,9"
       THEN pc' = "read" /\ g' = EmptyGrid
       ELSE pc' = "failed" /\ g' = g
    /\ UNCHANGED <<input, work, ptr, end, nc, out, header, lines>>

\* the line read by this iteration of while !f.eof()
CurLine == Head(lines)

\* comps[0], comps[1], comps[2] and g[row][col] are all within bounds
InBounds(comps) ==
    /\ Len(comps) >= 3
    /\ U8(from_str(comps[1])) < Alloc
    /\ U8(from_str(comps[2])) < Alloc

\* a line for which str::is_not_empty(line) is false
ReadEmptyLine ==
    /\ pc = "read"
    /\ lines # <<>>
    /\ CurLine = <<>>
    /\ lines' = Tail(lines)
    /\ UNCHANGED <<g, input, work, ptr, end, pc, nc, out, header>>

\* g[row][col] = uint::from_str(comps[2]) as u8
ReadDataLine ==
    /\ pc = "read"
    /\ lines # <<>>
    /\ CurLine # <<>>
    /\ InBounds(CurLine)
    /\ g' = SetCell(g, U8(from_str(CurLine[1])), U8(from_str(CurLine[2])),
                    U8(from_str(CurLine[3])))
    /\ lines' = Tail(lines)
    /\ UNCHANGED <<input, work, ptr, end, pc, nc, out, header>>

\* ReadLineFails replaced by a skip of the line
ReadLineSkipped ==
    /\ pc = "read"
    /\ lines # <<>>
    /\ CurLine # <<>>
    /\ ~InBounds(CurLine)
    /\ lines' = Tail(lines)
    /\ UNCHANGED <<g, input, work, ptr, end, pc, nc, out, header>>

\* an index past the end of comps, of g or of g[row]: the task fails
ReadLineFails ==
    /\ pc = "read"
    /\ lines # <<>>
    /\ CurLine # <<>>
    /\ ~InBounds(CurLine)
    /\ pc' = "failed"
    /\ UNCHANGED <<g, input, work, ptr, end, nc, out, header, lines>>

\* f.eof(): ret g
ReadReturn ==
    /\ pc = "read"
    /\ lines = <<>>
    /\ pc' = "read_done"
    /\ input' = g
    /\ UNCHANGED <<g, work, ptr, end, nc, out, header, lines>>

NextRead ==
    ReadHeader \/ ReadEmptyLine \/ ReadDataLine \/ ReadLineFails \/ ReadReturn

SpecRead == InitRead /\ [][NextRead]_vars

-----------------------------------------------------------------------------
(* Vocabulary of the properties *)

SameBlock(p, q) ==
    /\ p[1] \div Block = q[1] \div Block
    /\ p[2] \div Block = q[2] \div Block

\* the other fields of p's row, column and block
Peers(p) ==
    { q \in Cells : q # p /\ (q[1] = p[1] \/ q[2] = p[2] \/ SameBlock(p, q)) }

\* the rows, the columns and the blocks, each a set of 9 fields
Units ==
    { { p \in Cells : p[1] = r } : r \in Idx } \cup
    { { p \in Cells : p[2] = c } : c \in Idx } \cup
    { { p \in Cells : SameBlock(p, <<br, bc>>) } :
        br \in {0, 3, 6}, bc \in {0, 3, 6} }

\* every row, column and block holds each of 1..9 (9 fields: exactly once)
ValidGrid(grid) == \A u \in Units : { grid[p[1]][p[2]] : p \in u } = Colors

Givens(grid) == { p \in Cells : grid[p[1]][p[2]] # 0 }
Empties(grid) == { p \in Cells : grid[p[1]][p[2]] = 0 }

\* two identical givens in one row
RowDuplicate(grid) ==
    \E p, q \in Givens(grid) :
        p # q /\ p[1] = q[1] /\ grid[p[1]][p[2]] = grid[q[1]][q[2]]

\* field p holds a colour that no other field of its row, column, block holds
Differs(grid, p) ==
    /\ grid[p[1]][p[2]] \in Colors
    /\ \A q \in Peers(p) : grid[q[1]][q[2]] # grid[p[1]][p[2]]

\* the grids that fill the empty fields k, k+1, ... (row-major) of a grid of S
\* with colours, each differing from what its peers hold by then
RECURSIVE FillFrom(_, _, _)
FillFrom(S, orig, k) ==
    IF k < Size * Size
    THEN LET row == k \div Size
             col == k % Size
         IN  IF orig[row][col] # 0
             THEN FillFrom(S, orig, k + 1)
             ELSE FillFrom({ SetCell(h, row, col, d) : <<h, d>> \in
                              { x \in S \X Colors :
                                  \A q \in Peers(<<row, col>>) :
                                      x[1][q[1]][q[2]] # x[2] } },
                           orig, k + 1)
    ELSE S

\* all completions of grid: the grids that agree with it on its givens and
\* in which every field empty in grid differs from all its peers
Completions(grid) == FillFrom({grid}, grid, 0)

\* the driver loop is at, or has left by, ptr == end
Accepted == pc \in {"loop", "write", "done"} /\ ptr = end

Failed == pc = "failed"

-----------------------------------------------------------------------------
(* The claims *)

\* C1: whenever solve_grid finishes successfully, every row, column and
\* block of the grid holds each of 1..9 exactly once
C1_Validity == Accepted => ValidGrid(g)

\* C2: in every state of solve_grid every field that was non-zero in the
\* input still holds its input value
C2_GivensKept ==
    \A p \in Givens(input) : g[p[1]][p[2]] = input[p[1]][p[2]]

\* a state after a backward step, with givens in the grid
C2_Witness ==
    /\ pc = "loop" /\ ptr > 0 /\ nc # NoCall /\ ~nc.ret
    /\ Givens(input) # {}

\* C3: an input with two identical givens in one row never reaches the
\* accepting state
C3_RowDuplicateRejected == RowDuplicate(input) => ~Accepted

\* C4: solve_grid fails only if the input has no completion
C4_FailOnlyIfNoCompletion == Failed => Completions(input) = {}

\* a failure after the cursor had advanced and come back: the failing call
\* at ptr == 0 starts above 1, so the first field had been coloured before
C4_Witness == Failed /\ end >= 2 /\ nc.start > 1 /\ Completions(input) = {}

\* C5: in the accepting state every field of the work list holds a colour
\* 1..9 that no other field of its row, column and block holds
C5_WorkCellsConsistent ==
    Accepted => \A p \in Empties(input) : Differs(g, p)

\* acceptance of a grid whose givens repeat a colour in a row
C5_Witness ==
    /\ pc = "done" /\ end > 0 /\ RowDuplicate(input)
    /\ \A p \in Empties(input) : Differs(g, p)

\* C8: on an input without a 0 the work list is empty, the driver takes no
\* step and the grid stays as it is; an accepted grid holds no 0, so it is
\* such an input
C8_CompleteGridUntouched ==
    /\ (Empties(input) = {} /\ pc # "solve") =>
          /\ work = <<>> /\ end = 0 /\ ptr = 0
          /\ nc = NoCall
          /\ g = input
          /\ pc \in {"loop", "write", "done"}
    /\ Accepted => Empties(g) = {}

\* a complete input written out as it came in
C8_Witness == Empties(input) = {} /\ pc = "done" /\ g = input

\* C9: output exists only once solve_grid has accepted and main has called
\* write_grid; after a failure there is none
C9_WriteOnlyAfterAccept ==
    /\ out # <<>> => (pc = "done" /\ ptr = end)
    /\ pc = "write" => ptr = end
    /\ Failed => out = <<>>

\* output written after a search that filled fields
C9_Witness == pc = "done" /\ Len(out) = Size /\ end > 0 /\ ptr = end

\* the colours from start on that no field of p's row, column and block holds
FreeColors(grid, p, start) ==
    { d \in Colors :
        /\ start <= d
        /\ \A q \in Peers(p) \cup {p} : grid[q[1]][q[2]] # d }

Min(S) == CHOOSE d \in S : \A e \in S : d <= e

\* C6: next_color writes the smallest colour >= start that no field of the
\* row, column and block holds and returns true; without one it writes 0 and
\* returns false; a single missing colour, with start = 1, is the one written
C6_NextColorSmallestFree ==
    pc = "color_done" =>
        LET p == <<nc.row, nc.col>>
            free == FreeColors(input, p, nc.start)
        IN  /\ free # {} =>
                /\ nc.ret
                /\ g = SetCell(input, nc.row, nc.col, Min(free))
            /\ free = {} =>
                /\ ~nc.ret
                /\ g = SetCell(input, nc.row, nc.col, 0)
            /\ (nc.start = 1 /\ Cardinality(FreeColors(input, p, 1)) = 1) =>
                FreeColors(input, p, 1) = {g[nc.row][nc.col]}

\* a call with start = 1 on a field whose neighbourhood misses one colour
C6_Witness ==
    /\ pc = "color_done" /\ nc.start = 1 /\ nc.ret
    /\ FreeColors(input, <<nc.row, nc.col>>, 1) = {g[nc.row][nc.col]}
    /\ input[nc.row][nc.col] = 0

\* a non-empty line with fewer than 3 fields is the next line to read
AtShortLine ==
    pc = "read" /\ lines # <<>> /\ CurLine # <<>> /\ Len(CurLine) < 3

\* C10 as stated: read_grid ignores a non-empty line with fewer than 3
\* fields: no failure, the grid unchanged, the remaining lines still read
C10_ShortLineIgnored ==
    [][AtShortLine => (pc' = "read" /\ g' = g /\ lines' = Tail(lines))]_vars

\* C10 as amended: a non-empty line with fewer than 3 fields makes read_grid
\* fail; the grid is not changed and no further line is read
C10_ShortLineFails ==
    [][AtShortLine => (pc' = "failed" /\ g' = g /\ lines' = lines)]_vars

\* read_grid has failed at a short line that follows a line it has stored
C10_Witness ==
    /\ pc = "failed" /\ header = "9,9"
    /\ lines # <<>> /\ CurLine # <<>> /\ Len(CurLine) < 3
    /\ g # EmptyGrid

\* the colour of the field at work-list position k (counted from 0)
WorkValue(k) == g[work[k + 1][1]][work[k + 1][2]]

\* the loop condition ptr < end is being evaluated
AtLoop == pc = "loop"

\* the last driver step was a backward step
AfterBackward == nc # NoCall /\ ~nc.ret

\* C11 as stated: at every evaluation of the loop condition every field at
\* a work-list position >= ptr holds 0
C11_ZeroFromCursor ==
    AtLoop => \A k \in ptr .. (end - 1) : WorkValue(k) = 0

\* C11 as amended: at every evaluation of the loop condition every field at
\* a work-list position > ptr holds 0; the field at ptr holds 0 at loop
\* entry and after a forward step, and after a backward step it still holds
\* the colour it was last given
C11_ZeroAfterCursor ==
    AtLoop =>
        /\ \A k \in (ptr + 1) .. (end - 1) : WorkValue(k) = 0
        /\ (ptr < end /\ ~AfterBackward) => WorkValue(ptr) = 0
        /\ (ptr < end /\ AfterBackward) => WorkValue(ptr) \in Colors

\* the loop condition after a backward step, with fields beyond the cursor
C11_Witness ==
    /\ AtLoop /\ AfterBackward /\ ptr + 1 < end
    /\ WorkValue(ptr) \in Colors
    /\ WorkValue(ptr + 1) = 0

\* C12: at every evaluation of the loop condition every field at a
\* work-list position < ptr holds a colour 1..9 that no other field of its
\* row, column and block holds
C12_PrefixConsistent ==
    AtLoop => \A k \in 0 .. (ptr - 1) : Differs(g, work[k + 1])

\* the loop condition after a backward step that left a coloured field at
\* the cursor, with coloured fields before it
C12_Witness ==
    /\ AtLoop /\ AfterBackward /\ ptr >= 2
    /\ WorkValue(ptr) \in Colors
    /\ \A k \in 0 .. (ptr - 1) : Differs(g, work[k + 1])

\* the colour of the k-th field, row-major
At(grid, k) == grid[k \div Size][k % Size]

\* grid a comes before grid b, or is b, when their fields are read in
\* row-major order (the order of the work list)
LexLeq(a, b) ==
    LET diff == { k \in 0 .. (Size * Size - 1) : At(a, k) # At(b, k) }
    IN  diff = {} \/ At(a, Min(diff)) < At(b, Min(diff))

\* C15: when solve_grid succeeds the grid is a completion of the input and
\* the smallest of all its completions in the lexicographic order of the
\* work list
C15_SmallestCompletion ==
    pc = "write" =>
        LET all == Completions(input)
        IN  /\ g \in all
            /\ \A h \in all : LexLeq(g, h)

\* a success on an input that has several completions
C15_Witness ==
    /\ pc = "write" /\ end > 0
    /\ Cardinality(Completions(input)) >= 2

\* C13: solve_grid terminates: every run reaches the accepting state or the
\* failure state
C13_Terminates == <>(Accepted \/ Failed)

\* the end of the run on the example sudoku, which takes several hundred
\* forward and backward steps
C13_Witness == pc = "write" /\ ptr = end /\ input = ExampleGrid

\* a driver step is about to be taken
AtStep == pc = "loop" /\ ptr < end

\* C14: a driver step moves the cursor by exactly one, forward when
\* next_color succeeds and backward when it fails with ptr > 0, and changes
\* no field but work[ptr]; the cursor stays within 0..len(work); at ptr == 0
\* a failing next_color leads to the failure state and ptr is not decremented
C14_StepByOne ==
    /\ ptr \in 0 .. end
    /\ [][ /\ ptr' \in 0 .. end'
           /\ AtStep =>
                LET row == work[ptr + 1][1]
                    col == work[ptr + 1][2]
                    ok  == next_color(g, row, col, g[row][col] + 1).ret
                IN  /\ g' = SetCell(g, row, col, g'[row][col])
                    /\ ok => (ptr' = ptr + 1 /\ pc' = "loop")
                    /\ (~ok /\ ptr > 0) => (ptr' = ptr - 1 /\ pc' = "loop")
                    /\ (~ok /\ ptr = 0) => (ptr' = 0 /\ pc' = "failed")
         ]_vars

\* the cursor is back at 0 after a backward step from position 1
C14_Witness == AtLoop /\ ptr = 0 /\ AfterBackward /\ end >= 2

\* the colours of the work-list fields up to the cursor, and 10 (above every
\* colour) for the fields beyond it: the part of the search space left behind
Key == [k \in 0 .. (end - 1) |-> IF k <= ptr THEN WorkValue(k) ELSE 10]

\* a comes strictly before b in the lexicographic order
KeyLess(a, b) ==
    LET diff == { k \in DOMAIN a : a[k] # b[k] }
    IN  diff # {} /\ a[Min(diff)] < b[Min(diff)]

C17_FailureLeavesInput ==
    Failed =>
        /\ \A k \in 0 .. (end - 1) : WorkValue(k) = 0
        /\ g = input

\* a failure after fields had been coloured and reset
C17_Witness ==
    /\ Failed /\ end >= 3 /\ nc.start > 1
    /\ g = input

\* the place of a field in row-major order
RowMajor(p) == p[1] * Size + p[2]

\* the work list holds the fields that are 0 in the input, each once, in
\* row-major order
WorkIsEmpties ==
    /\ end = Len(work)
    /\ { work[i] : i \in 1 .. Len(work) } = Empties(input)
    /\ \A i \in 1 .. (Len(work) - 1) : RowMajor(work[i]) < RowMajor(work[i + 1])

\* C18: the work list built by solve_grid holds exactly the coordinates whose
\* input value is 0, each once, in row-major order, and no step after its
\* construction modifies it
C18_WorkList ==
    [][ /\ pc' # "solve" => WorkIsEmpties'
        /\ pc # "solve" => work' = work
      ]_vars

\* the work list of a sparse input, after driver steps in both directions
C18_Witness ==
    /\ AtLoop /\ AfterBackward /\ Len(work) >= 2
    /\ WorkIsEmpties
    /\ Cardinality(Empties(input)) = Len(work)

====
